---- MODULE Spec2Model ----
\* Pod booking back end: pod status registry, booking coordinator and VNPay
\* payment-callback reconciliation, modelled from the service, controller and
\* model sources.
\*
\* Every handler is an async function: each `await` on the database is a
\* suspension point at which another request may run.  The step actions follow
\* the awaits of the source.  The sequential specifications run one request at
\* a time to completion; the concurrent ones interleave the steps of two.
EXTENDS Integers, Sequences, FiniteSets, TLC

\* ------------------------------------------------------------------ bounds
MaxBookings == 2
MaxTime == 2
MaxClock == 2

\* ------------------------------------------------------------- value sets
Pods == {"p1"}
Times == 0..MaxTime
NoTime == 0 - 1

\* status values storable in a pod record (findByIdAndUpdate runs no validators)
AllowedStatus == {"AVAILABLE", "OCCUPIED", "NEEDS_CLEANING", "CLEANING", "MAINTENANCE", "OUT_OF_SERVICE"}
\* enum of the Pod schema that pod.save() validates against
PodSchemaStatusEnum == {"AVAILABLE", "OCCUPIED", "NEEDS_CLEANING", "CLEANING", "MAINTENANCE"}
\* validStatuses of PodService.updatePodStatus
ValidStatuses == {"AVAILABLE", "OCCUPIED", "MAINTENANCE", "OUT_OF_SERVICE"}
\* a status string outside every list, as a request body may carry
RequestStatuses == AllowedStatus \cup {"BROKEN"}

BookingRequests == {"b1", "b2"}

\* createBooking is called with a non-empty interval [startTime, endTime)
Intervals == {iv \in Times \X Times : iv[1] < iv[2]}

VARIABLES
    podStatus,      \* pod id -> status field of the pod document
    bookings,       \* sequence of booking documents; the index is the booking id
    clock,          \* value the next `new Date()` returns
    breq            \* booking / pod request -> its locals, position and response

bookingVars == <<podStatus, bookings, clock, breq>>

\* ------------------------------------------------------- booking coordinator
\* the overlap test with its second comparison against the wrong endpoint
isTimeOverlap_WrongEndpoint(startA, endA, startB, endB) ==
    startA < endB /\ startB < startA

isTimeOverlap(startA, endA, startB, endB) ==
    startA < endB /\ startB < endA

\* Booking.find({ pod: podId, status: { $in: ["BOOKED", "IN_USE"] } })
existingBookings(podId) ==
    {i \in 1..Len(bookings) :
        bookings[i].pod = podId /\ bookings[i].status \in {"BOOKED", "IN_USE"}}

\* a conflict test that rejects whenever the pod has an active booking
hasConflict_AnyBooking(podId, startTime, endTime) == existingBookings(podId) # {}

\* the loop of createBooking over existingBookings
hasConflict(podId, startTime, endTime) ==
    \E i \in existingBookings(podId) :
        isTimeOverlap(startTime, endTime, bookings[i].startTime, bookings[i].endTime)

newBooking(podId, startTime, endTime) ==
    [pod |-> podId, startTime |-> startTime, endTime |-> endTime,
     status |-> "BOOKED", actualEndTime |-> NoTime]

\* a request slot: pc "idle" (no request), a position inside a handler, or
\* "done" (the handler returned rsp; the response is on its way to the caller)
IdleReq ==
    [pc |-> "idle", op |-> "none", pod |-> "p1", startTime |-> 0, endTime |-> 0,
     bid |-> 0, status |-> "AVAILABLE", seen |-> "AVAILABLE", rsp |-> "none"]

Call(op, podId, bid, status) ==
    [IdleReq EXCEPT !.op = op, !.pod = podId, !.bid = bid, !.status = status]

\* the handler returns or throws: rsp is "ok" or the error message
Return(req, rsp) == [req EXCEPT !.pc = "done", !.rsp = rsp]

\* the caller receives the response; the slot is free again
Deliver(r) ==
    /\ breq[r].pc = "done"
    /\ breq' = [breq EXCEPT ![r] = IdleReq]
    /\ UNCHANGED <<podStatus, bookings, clock>>

\* createBooking requests that have been accepted so far or may still be
PendingCreates ==
    Cardinality({r \in BookingRequests :
        breq[r].op = "createBooking" /\ breq[r].pc \in {"cb_find", "cb_create"}})

\* createBooking without its pod-status test
CB_FindPod_NoStatusTest(r, podId, startTime, endTime) ==
    /\ breq[r].pc = "idle"
    /\ Len(bookings) + PendingCreates < MaxBookings
    /\ breq' = [breq EXCEPT ![r] =
            [Call("createBooking", podId, 0, "OCCUPIED") EXCEPT
                !.startTime = startTime, !.endTime = endTime,
                !.seen = podStatus[podId], !.pc = "cb_find"]]
    /\ UNCHANGED <<podStatus, bookings, clock>>

\* createBooking: `await Pod.findById(podId)` and the status test
CB_FindPod(r, podId, startTime, endTime) ==
    /\ breq[r].pc = "idle"
    /\ Len(bookings) + PendingCreates < MaxBookings
    /\ LET req == [Call("createBooking", podId, 0, "OCCUPIED") EXCEPT
                       !.startTime = startTime, !.endTime = endTime,
                       !.seen = podStatus[podId]]
       IN  breq' = [breq EXCEPT ![r] =
                IF podStatus[podId] # "AVAILABLE"
                  THEN Return(req, "Pod is not available")
                  ELSE [req EXCEPT !.pc = "cb_find"]]
    /\ UNCHANGED <<podStatus, bookings, clock>>

\* createBooking: `await Booking.find(...)` and the overlap loop
CB_FindBookings(r) ==
    /\ breq[r].pc = "cb_find"
    /\ breq' = [breq EXCEPT ![r] =
            IF hasConflict(breq[r].pod, breq[r].startTime, breq[r].endTime)
              THEN Return(breq[r], "Time slot is not available")
              ELSE [breq[r] EXCEPT !.pc = "cb_create"]]
    /\ UNCHANGED <<podStatus, bookings, clock>>

\* createBooking: `await Booking.create({... status: "BOOKED"})`
CB_Create(r) ==
    /\ breq[r].pc = "cb_create"
    /\ bookings' = Append(bookings, newBooking(breq[r].pod, breq[r].startTime, breq[r].endTime))
    /\ breq' = [breq EXCEPT ![r].pc = "cb_save", ![r].bid = Len(bookings) + 1]
    /\ UNCHANGED <<podStatus, clock>>

\* createBooking: `pod.status = "OCCUPIED"; await pod.save()`
CB_SavePod(r) ==
    /\ breq[r].pc = "cb_save"
    /\ podStatus' = [podStatus EXCEPT ![breq[r].pod] = "OCCUPIED"]
    /\ breq' = [breq EXCEPT ![r] = Return(breq[r], "ok")]
    /\ UNCHANGED <<bookings, clock>>

\* createBooking: `await pod.save()` rejects (the pre-save hook throws, or the
\* write fails); createBooking throws after Booking.create has taken effect
CB_SavePodFault(r) ==
    /\ breq[r].pc = "cb_save"
    /\ breq' = [breq EXCEPT ![r] = Return(breq[r], "Pod save failed")]
    /\ UNCHANGED <<podStatus, bookings, clock>>

\* completeBooking: getBookingById
CP_Find(r, bid) ==
    /\ breq[r].pc = "idle"
    /\ clock < MaxClock
    /\ breq' = [breq EXCEPT ![r] =
            IF bid \notin 1..Len(bookings)
              THEN Return(Call("completeBooking", "p1", bid, "NEEDS_CLEANING"), "Booking not found")
              ELSE [Call("completeBooking", bookings[bid].pod, bid, "NEEDS_CLEANING")
                        EXCEPT !.pc = "cp_save"]]
    /\ UNCHANGED <<podStatus, bookings, clock>>

\* completeBooking: status = "COMPLETED", actualEndTime = new Date(), booking.save()
CP_SaveBooking(r) ==
    /\ breq[r].pc = "cp_save"
    /\ bookings' = [bookings EXCEPT ![breq[r].bid].status = "COMPLETED",
                                    ![breq[r].bid].actualEndTime = clock]
    /\ clock' = clock + 1
    /\ breq' = [breq EXCEPT ![r].pc = "cp_pod"]
    /\ UNCHANGED podStatus

\* completeBooking: Pod.findByIdAndUpdate(booking.pod, { status: "NEEDS_CLEANING" })
CP_UpdatePod(r) ==
    /\ breq[r].pc = "cp_pod"
    /\ podStatus' = [podStatus EXCEPT ![breq[r].pod] = "NEEDS_CLEANING"]
    /\ breq' = [breq EXCEPT ![r] = Return(breq[r], "ok")]
    /\ UNCHANGED <<bookings, clock>>

\* cancelBooking: getBookingById and the COMPLETED test
CN_Find(r, bid) ==
    /\ breq[r].pc = "idle"
    /\ breq' = [breq EXCEPT ![r] =
            IF bid \notin 1..Len(bookings)
              THEN Return(Call("cancelBooking", "p1", bid, "AVAILABLE"), "Booking not found")
            ELSE IF bookings[bid].status = "COMPLETED"
              THEN Return(Call("cancelBooking", bookings[bid].pod, bid, "AVAILABLE"),
                          "Cannot cancel completed booking")
              ELSE [Call("cancelBooking", bookings[bid].pod, bid, "AVAILABLE")
                        EXCEPT !.pc = "cn_save"]]
    /\ UNCHANGED <<podStatus, bookings, clock>>

\* cancelBooking: status = "CANCELLED", booking.save()
CN_SaveBooking(r) ==
    /\ breq[r].pc = "cn_save"
    /\ bookings' = [bookings EXCEPT ![breq[r].bid].status = "CANCELLED"]
    /\ breq' = [breq EXCEPT ![r].pc = "cn_pod"]
    /\ UNCHANGED <<podStatus, clock>>

\* cancelBooking releasing the pod the way completeBooking does
CN_UpdatePod_ToNeedsCleaning(r) ==
    /\ breq[r].pc = "cn_pod"
    /\ podStatus' = [podStatus EXCEPT ![breq[r].pod] = "NEEDS_CLEANING"]
    /\ breq' = [breq EXCEPT ![r] = Return(breq[r], "ok")]
    /\ UNCHANGED <<bookings, clock>>

\* cancelBooking: Pod.findByIdAndUpdate(booking.pod, { status: "AVAILABLE" })
CN_UpdatePod(r) ==
    /\ breq[r].pc = "cn_pod"
    /\ podStatus' = [podStatus EXCEPT ![breq[r].pod] = "AVAILABLE"]
    /\ breq' = [breq EXCEPT ![r] = Return(breq[r], "ok")]
    /\ UNCHANGED <<bookings, clock>>

\* ------------------------------------------------------------ pod registry
VARIABLES
    podExists,      \* the pod ids that have a pod document
    lastCleanedAt   \* pod id -> last_cleaned_at field of the pod document

\* the first pre-save hook of the Pod schema: last_cleaned_at is stamped when
\* status was modified to AVAILABLE and _previousStatus is "CLEANING"
preSaveStamps(isModified, status, previousStatus) ==
    isModified /\ status = "AVAILABLE" /\ previousStatus = "CLEANING"

\* _previousStatus of a document just loaded: the second pre-save hook assigns
\* it (the new status) only after the first hook of the same save() has run
LoadedPreviousStatus == "undefined"

\* guards of the Pod document's transition methods: "ok" or the error thrown
markAsOccupied(cur) ==
    IF cur # "AVAILABLE" THEN "Cannot occupy pod" ELSE "ok"

markAsAvailable(cur) ==
    IF cur = "NEEDS_CLEANING" \/ cur = "CLEANING"
      THEN "Pod must be cleaned before becoming available" ELSE "ok"

startCleaning(cur) ==
    IF cur # "NEEDS_CLEANING"
      THEN "Pod must be in NEEDS_CLEANING status to start cleaning" ELSE "ok"

\* pod.save() validates the status path against the schema enum
validateStatus(status) ==
    IF status \in PodSchemaStatusEnum THEN "ok" ELSE "is not a valid status"

\* the switch of the pods controller's updatePodStatus
controllerSwitch(cur, status) ==
    CASE status = "OCCUPIED" -> markAsOccupied(cur)
      [] status = "AVAILABLE" -> markAsAvailable(cur)
      [] status = "NEEDS_CLEANING" -> "ok"
      [] status = "CLEANING" -> startCleaning(cur)
      [] status = "MAINTENANCE" -> "ok"
      [] OTHER -> validateStatus(status)

\* pods controller updatePodStatus: `await Pod.findOne`, then the helper's guard
SUC_Find(r, podId, status) ==
    /\ breq[r].pc = "idle"
    /\ LET req == [Call("updatePodStatus", podId, 0, status) EXCEPT !.seen = podStatus[podId]]
           out == IF podId \notin podExists THEN "Pod not found"
                  ELSE controllerSwitch(podStatus[podId], status)
       IN  breq' = [breq EXCEPT ![r] =
                IF out # "ok" THEN Return(req, out) ELSE [req EXCEPT !.pc = "su_save"]]
    /\ UNCHANGED <<podStatus, bookings, clock, lastCleanedAt>>

\* PodService.updatePodStatus: validStatuses test, `await Pod.findOne`, pod.status = status
SUS_Find(r, podId, status) ==
    /\ breq[r].pc = "idle"
    /\ LET req == [Call("PodService.updatePodStatus", podId, 0, status)
                       EXCEPT !.seen = podStatus[podId]]
           out == IF status \notin ValidStatuses THEN "Invalid status"
                  ELSE IF podId \notin podExists THEN "Pod not found"
                  ELSE validateStatus(status)
       IN  breq' = [breq EXCEPT ![r] =
                IF out # "ok" THEN Return(req, out) ELSE [req EXCEPT !.pc = "su_save"]]
    /\ UNCHANGED <<podStatus, bookings, clock, lastCleanedAt>>

\* `await pod.save()` of both: the pre-save hooks run, then the status path is
\* written if the handler modified it; the save of a modified document whose
\* record was deleted meanwhile rejects
SU_Save(r) ==
    /\ breq[r].pc = "su_save"
    /\ LET isModified == breq[r].status # breq[r].seen
           stamps == preSaveStamps(isModified, breq[r].status, LoadedPreviousStatus)
       IN  IF isModified /\ breq[r].pod \notin podExists
             THEN /\ breq' = [breq EXCEPT ![r] = Return(breq[r], "No document found")]
                  /\ UNCHANGED <<podStatus, lastCleanedAt>>
             ELSE /\ podStatus' = IF isModified
                                    THEN [podStatus EXCEPT ![breq[r].pod] = breq[r].status]
                                    ELSE podStatus
                  /\ lastCleanedAt' = IF stamps
                                        THEN [lastCleanedAt EXCEPT ![breq[r].pod] = clock]
                                        ELSE lastCleanedAt
                  /\ breq' = [breq EXCEPT ![r] = Return(breq[r], "ok")]
    /\ UNCHANGED <<bookings, clock>>

\* utils/podService updatePodStatus: allowedStatus test, Pod.findByIdAndUpdate
SUU_Update(r, podId, status) ==
    /\ breq[r].pc = "idle"
    /\ LET req == [Call("utils.updatePodStatus", podId, 0, status)
                       EXCEPT !.seen = podStatus[podId]]
       IN  IF status \notin AllowedStatus
             THEN /\ breq' = [breq EXCEPT ![r] = Return(req, "Invalid pod status")]
                  /\ UNCHANGED podStatus
           ELSE IF podId \notin podExists
             THEN /\ breq' = [breq EXCEPT ![r] = Return(req, "Pod not found")]
                  /\ UNCHANGED podStatus
             ELSE /\ breq' = [breq EXCEPT ![r] = Return(req, "ok")]
                  /\ podStatus' = [podStatus EXCEPT ![podId] = status]
    /\ UNCHANGED <<bookings, clock, lastCleanedAt>>

\* ------------------------------------------------------------ pod deletion
\* deletePod of the pods controller and PodService.deletePod:
\* `await Pod.findOne`, the not-found test and the OCCUPIED test
DeleteOps == {"deletePod", "PodService.deletePod"}

DP_Find(r, op, podId) ==
    /\ breq[r].pc = "idle"
    /\ LET req == [Call(op, podId, 0, "AVAILABLE") EXCEPT !.seen = podStatus[podId]]
       IN  breq' = [breq EXCEPT ![r] =
                IF podId \notin podExists THEN Return(req, "Pod not found")
                ELSE IF podStatus[podId] = "OCCUPIED"
                  THEN Return(req, "Cannot delete occupied pod")
                  ELSE [req EXCEPT !.pc = "dp_delete"]]
    /\ UNCHANGED <<podStatus, bookings, clock, podExists>>

\* `await Pod.deleteOne({ id })`, then the success response
DP_Delete(r) ==
    /\ breq[r].pc = "dp_delete"
    /\ podExists' = podExists \ {breq[r].pod}
    /\ breq' = [breq EXCEPT ![r] = Return(breq[r], "ok")]
    /\ UNCHANGED <<podStatus, bookings, clock>>

\* PodService.deleteManyPods with codes naming pod podId:
\* `await Pod.find({ ...filter, status: "OCCUPIED" })` and the length test
DM_Find(r, podId) ==
    /\ breq[r].pc = "idle"
    /\ LET req == [Call("deleteManyPods", podId, 0, "AVAILABLE") EXCEPT !.seen = podStatus[podId]]
           occupiedPods == {p \in {podId} \cap podExists : podStatus[p] = "OCCUPIED"}
       IN  breq' = [breq EXCEPT ![r] =
                IF occupiedPods # {} THEN Return(req, "Cannot delete occupied pods")
                ELSE [req EXCEPT !.pc = "dm_delete"]]
    /\ UNCHANGED <<podStatus, bookings, clock, podExists>>

\* `await Pod.deleteMany(filter)`: every pod the filter matches now
DM_Delete(r) ==
    /\ breq[r].pc = "dm_delete"
    /\ podExists' = podExists \ {breq[r].pod}
    /\ breq' = [breq EXCEPT ![r] = Return(breq[r], "ok")]
    /\ UNCHANGED <<podStatus, bookings, clock>>

\* ------------------------------------------------------------ pod cleaning
\* podSchema.methods.completeCleaning up to its save(): the guard
completeCleaning(cur) ==
    IF cur # "CLEANING" THEN "Pod must be in CLEANING status to complete cleaning" ELSE "ok"

\* completePodCleaning of the pods controller: `await Pod.findOne`, then
\* pod.completeCleaning() sets status and last_cleaned_at = new Date(); the
\* Date read is kept with the request (field startTime) until the save
CC_Find(r, podId) ==
    /\ breq[r].pc = "idle"
    /\ clock < MaxClock
    /\ LET req == [Call("completePodCleaning", podId, 0, "AVAILABLE") EXCEPT !.seen = podStatus[podId]]
           out == IF podId \notin podExists THEN "Pod not found"
                  ELSE completeCleaning(podStatus[podId])
       IN  IF out # "ok"
             THEN /\ breq' = [breq EXCEPT ![r] = Return(req, out)]
                  /\ UNCHANGED clock
             ELSE /\ breq' = [breq EXCEPT ![r] = [req EXCEPT !.pc = "cc_save", !.startTime = clock]]
                  /\ clock' = clock + 1
    /\ UNCHANGED <<podStatus, bookings, podExists, lastCleanedAt>>

\* completeCleaning: `await this.save()` writes status and last_cleaned_at
CC_Save(r) ==
    /\ breq[r].pc = "cc_save"
    /\ IF breq[r].pod \notin podExists
         THEN /\ breq' = [breq EXCEPT ![r] = Return(breq[r], "No document found")]
              /\ UNCHANGED <<podStatus, lastCleanedAt>>
         ELSE /\ podStatus' = [podStatus EXCEPT ![breq[r].pod] = "AVAILABLE"]
              /\ lastCleanedAt' = [lastCleanedAt EXCEPT ![breq[r].pod] = breq[r].startTime]
              /\ breq' = [breq EXCEPT ![r] = Return(breq[r], "ok")]
    /\ UNCHANGED <<bookings, clock, podExists>>

\* completePodCleaning of the service-backed pods controller:
\* podService.updatePodStatus(id, { status: "AVAILABLE" }), saved by SU_Save
CCS_Find(r, podId) ==
    /\ breq[r].pc = "idle"
    /\ LET req == [Call("service.completePodCleaning", podId, 0, "AVAILABLE")
                       EXCEPT !.seen = podStatus[podId]]
           out == IF "AVAILABLE" \notin ValidStatuses THEN "Invalid status"
                  ELSE IF podId \notin podExists THEN "Pod not found"
                  ELSE validateStatus("AVAILABLE")
       IN  breq' = [breq EXCEPT ![r] =
                IF out # "ok" THEN Return(req, out) ELSE [req EXCEPT !.pc = "su_save"]]
    /\ UNCHANGED <<podStatus, bookings, clock, podExists, lastCleanedAt>>

\* ------------------------------------------------------------ incidents
MaxIncidents == 2
Severities == {"LOW", "MEDIUM", "HIGH", "CRITICAL"}

VARIABLES
    incidents,      \* sequence of incident documents
    ireq            \* the createIncident request: its locals, position and response

IdleIncident == [pc |-> "idle", pod |-> "p1", severity |-> "LOW", rsp |-> "none"]

\* createIncident: `await Pod.findById(podId)` and the not-found test
CI_FindPod(podId, severity) ==
    /\ ireq.pc = "idle"
    /\ Len(incidents) < MaxIncidents
    /\ ireq' = IF podId \notin podExists
                 THEN [IdleIncident EXCEPT !.pc = "done", !.pod = podId, !.severity = severity,
                                           !.rsp = "Pod not found"]
                 ELSE [IdleIncident EXCEPT !.pc = "ci_create", !.pod = podId, !.severity = severity]
    /\ UNCHANGED <<podStatus, incidents>>

\* createIncident: `await Incident.create({... status: "PENDING"})`, then the
\* severity test
CI_Create ==
    /\ ireq.pc = "ci_create"
    /\ incidents' = Append(incidents,
            [pod |-> ireq.pod, severity |-> ireq.severity, status |-> "PENDING"])
    /\ ireq' = IF ireq.severity = "HIGH"
                 THEN [ireq EXCEPT !.pc = "ci_save"]
                 ELSE [ireq EXCEPT !.pc = "done", !.rsp = "ok"]
    /\ UNCHANGED podStatus

\* createIncident: `pod.status = "OUT_OF_SERVICE"; await pod.save()`
CI_SavePod ==
    /\ ireq.pc = "ci_save"
    /\ podStatus' = [podStatus EXCEPT ![ireq.pod] = "OUT_OF_SERVICE"]
    /\ ireq' = [ireq EXCEPT !.pc = "done", !.rsp = "ok"]
    /\ UNCHANGED incidents

\* createIncident: `await pod.save()` rejects; the incident stays stored
CI_SavePodFault ==
    /\ ireq.pc = "ci_save"
    /\ ireq' = [ireq EXCEPT !.pc = "done", !.rsp = "Pod save failed"]
    /\ UNCHANGED <<podStatus, incidents>>

\* the caller of createIncident receives the response
CI_Deliver ==
    /\ ireq.pc = "done"
    /\ ireq' = IdleIncident
    /\ UNCHANGED <<podStatus, incidents>>

\* ------------------------------------------------------ payment gateway
Orders == {"o1"}
\* vnp_TxnRef values a callback may carry: a stored order or an unknown one
TxnRefs == Orders \cup {"oX"}
\* amounts in VND a payment is created with
Amounts == {1, 2}
\* vnp_Amount values a callback may carry (the gateway sends amount x 100)
RawAmounts == {100, 200}
ResponseCodes == {"00", "24"}
TransactionNos == {"T1", "T2"}
PaymentRequests == {"c1", "c2"}

vnp_HashSecret == "SECRET"
ForgedSecret == "NOT_THE_SECRET"

VARIABLES
    payments,       \* order id -> payment document (status "NONE": no document)
    preq            \* payment callback request -> its locals, position and response

\* vnpayData is written by updateStatus; transactionId, bankCode, paymentDate
\* and vnpayResponse (field svc) are the fields PaymentService writes
NoPayment ==
    [status |-> "NONE", amount |-> 0, authorizedAt |-> NoTime,
     vnpayData |-> [transactionNo |-> "", bankCode |-> "", responseCode |-> "", payDate |-> ""],
     svc |-> [transactionId |-> "", bankCode |-> "", paymentDate |-> "", vnpayResponse |-> ""]]

\* Payment.createPayment: status INITIATED, no gateway data, no authorizedAt
createPaymentDoc(amount) ==
    [NoPayment EXCEPT !.status = "INITIATED", !.amount = amount]

\* names of the signed callback parameters in the order str.sort() gives them
SortedKeys ==
    <<"vnp_Amount", "vnp_BankCode", "vnp_PayDate", "vnp_ResponseCode",
      "vnp_TransactionNo", "vnp_TxnRef">>

\* sortObject: the parameters as key=value pairs, ordered by key
sortObject(obj) ==
    [i \in 1..Len(SortedKeys) |-> <<SortedKeys[i], obj[SortedKeys[i]]>>]

\* createSecureHash: a keyed hash of the sign data; equal digests mean equal
\* key and equal data
createSecureHash(data, secretKey) == <<"hmac-sha512", secretKey, data>>

\* the query parameters without vnp_SecureHash and vnp_SecureHashType
signedParams(txnRef, rawAmount, code, txnNo) ==
    [vnp_Amount |-> rawAmount, vnp_BankCode |-> "NCB", vnp_PayDate |-> "20250601120000",
     vnp_ResponseCode |-> code, vnp_TransactionNo |-> txnNo, vnp_TxnRef |-> txnRef]

\* the signature createPaymentUrl's scheme gives the parameters under a key
sign(params, key) == createSecureHash(sortObject(params), key)

\* a callback as the gateway sends it (signed with vnp_HashSecret), as a forger
\* without the secret sends it, or with its response code altered in transit
callback(txnRef, rawAmount, code, txnNo, sig) ==
    [params |-> signedParams(txnRef, rawAmount, code, txnNo),
     vnp_SecureHash |->
        CASE sig = "gateway" -> sign(signedParams(txnRef, rawAmount, code, txnNo), vnp_HashSecret)
          [] sig = "forged" -> sign(signedParams(txnRef, rawAmount, code, txnNo), ForgedSecret)
          [] OTHER -> sign(signedParams(txnRef, rawAmount, IF code = "00" THEN "24" ELSE "00", txnNo),
                           vnp_HashSecret)]

Signatures == {"gateway", "forged", "altered"}

Callbacks ==
    {callback(o, a, c, t, sg) :
        o \in TxnRefs, a \in RawAmounts, c \in ResponseCodes, t \in TransactionNos, sg \in Signatures}

\* a verification that accepts whatever signature the query carries
verifyIpnCall_AnySignature(cb) ==
    [isValid |-> TRUE,
     orderId |-> cb.params.vnp_TxnRef,
     rawAmount |-> cb.params.vnp_Amount,
     responseCode |-> cb.params.vnp_ResponseCode,
     transactionNo |-> cb.params.vnp_TransactionNo,
     bankCode |-> cb.params.vnp_BankCode,
     payDate |-> cb.params.vnp_PayDate,
     isSuccess |-> cb.params.vnp_ResponseCode = "00"]

\* verifyIpnCall: recompute the hash over the sorted parameters and compare
verifyIpnCall(cb) ==
    LET checkSum == createSecureHash(sortObject(cb.params), vnp_HashSecret)
    IN  IF cb.vnp_SecureHash = checkSum
          THEN [isValid |-> TRUE,
                orderId |-> cb.params.vnp_TxnRef,
                rawAmount |-> cb.params.vnp_Amount,
                responseCode |-> cb.params.vnp_ResponseCode,
                transactionNo |-> cb.params.vnp_TransactionNo,
                bankCode |-> cb.params.vnp_BankCode,
                payDate |-> cb.params.vnp_PayDate,
                isSuccess |-> cb.params.vnp_ResponseCode = "00"]
          ELSE [isValid |-> FALSE]

verifyReturnUrl(cb) == verifyIpnCall(cb)

\* `payment.amount !== vnp_Amount / 100` on exact values
amountDiffers(payment, rawAmount) == payment.amount * 100 # rawAmount

\* Payment.findByOrderId / Payment.findOne({ orderId })
findByOrderId(orderId) ==
    IF orderId \in Orders THEN payments[orderId] ELSE NoPayment

\* paymentSchema.methods.updateStatus up to its save(): the document in memory
updateStatus(doc, status, vnpayData) ==
    [doc EXCEPT !.status = status,
                !.authorizedAt = IF status = "AUTHORIZED" THEN clock ELSE @,
                !.vnpayData = [k \in DOMAIN @ |->
                                  IF k \in DOMAIN vnpayData THEN vnpayData[k] ELSE @[k]]]

\* a callback request slot: the request, whether its lookup succeeds, the
\* document as loaded (old) and as changed in memory (doc), and the response
\* once the handler has answered
IdleCallback ==
    [pc |-> "idle", entry |-> "none", cb |-> callback("oX", 100, "00", "T1", "gateway"),
     dbOk |-> TRUE, old |-> NoPayment, doc |-> NoPayment, http |-> 0, rsp |-> "none"]

Received(entry, cb, dbOk) == [IdleCallback EXCEPT !.entry = entry, !.cb = cb, !.dbOk = dbOk]

Respond(req, http, rsp) == [req EXCEPT !.pc = "done", !.http = http, !.rsp = rsp]

\* createPayment: Payment.createPayment with a fresh order id, status INITIATED
CreatePayment(orderId, amount) ==
    /\ payments[orderId].status = "NONE"
    /\ payments' = [payments EXCEPT ![orderId] = createPaymentDoc(amount)]
    /\ UNCHANGED <<clock, preq>>

\* the caller (gateway or browser) receives the response
DeliverCallback(r) ==
    /\ preq[r].pc = "done"
    /\ preq' = [preq EXCEPT ![r] = IdleCallback]
    /\ UNCHANGED <<clock, payments>>

\* a handler that calls updateStatus("AUTHORIZED") reads `new Date()`
Stamp(stamps) ==
    IF stamps THEN clock < MaxClock /\ clock' = clock + 1 ELSE UNCHANGED clock

successData(v) ==
    [transactionNo |-> v.transactionNo, bankCode |-> v.bankCode,
     responseCode |-> v.responseCode, payDate |-> v.payDate]

failureData(v) == [responseCode |-> v.responseCode]

\* vnpayReturn of the payment controller: verify, findByOrderId, updateStatus
\* up to its save(); dbOk = FALSE: the lookup rejects
PR_Find(r, cb, dbOk) ==
    /\ preq[r].pc = "idle"
    /\ LET v == verifyReturnUrl(cb)
           req == Received("vnpayReturn", cb, dbOk)
           payment == findByOrderId(cb.params.vnp_TxnRef)
       IN  IF ~v.isValid
             THEN /\ preq' = [preq EXCEPT ![r] = Respond(req, 400, "Invalid signature")]
                  /\ UNCHANGED clock
           ELSE IF ~dbOk
             THEN /\ preq' = [preq EXCEPT ![r] = Respond(req, 500, "Internal server error")]
                  /\ UNCHANGED clock
           ELSE IF payment.status = "NONE"
             THEN /\ preq' = [preq EXCEPT ![r] = Respond(req, 404, "Payment not found")]
                  /\ UNCHANGED clock
           ELSE /\ Stamp(v.isSuccess)
                /\ preq' = [preq EXCEPT ![r] =
                       [req EXCEPT !.pc = "pr_save", !.old = payment,
                                   !.doc = IF v.isSuccess
                                             THEN updateStatus(payment, "AUTHORIZED", successData(v))
                                             ELSE updateStatus(payment, "FAILED", failureData(v))]]
    /\ UNCHANGED payments

\* vnpayIpn: `payment.status === 'AUTHORIZED'`, the order was confirmed before
alreadyConfirmed(payment) == payment.status = "AUTHORIZED"

\* vnpayIpn of the payment controller: verify, findByOrderId, amount test,
\* AUTHORIZED test, updateStatus up to its save()
PI_Find(r, cb, dbOk) ==
    /\ preq[r].pc = "idle"
    /\ LET v == verifyIpnCall(cb)
           req == Received("vnpayIpn", cb, dbOk)
           payment == findByOrderId(cb.params.vnp_TxnRef)
       IN  IF ~v.isValid
             THEN /\ preq' = [preq EXCEPT ![r] = Respond(req, 200, "97")]
                  /\ UNCHANGED clock
           ELSE IF ~dbOk
             THEN /\ preq' = [preq EXCEPT ![r] = Respond(req, 200, "99")]
                  /\ UNCHANGED clock
           ELSE IF payment.status = "NONE"
             THEN /\ preq' = [preq EXCEPT ![r] = Respond(req, 200, "01")]
                  /\ UNCHANGED clock
           ELSE IF amountDiffers(payment, v.rawAmount)
             THEN /\ preq' = [preq EXCEPT ![r] = Respond(req, 200, "04")]
                  /\ UNCHANGED clock
           ELSE IF alreadyConfirmed(payment)
             THEN /\ preq' = [preq EXCEPT ![r] = Respond(req, 200, "02")]
                  /\ UNCHANGED clock
           ELSE /\ Stamp(v.isSuccess)
                /\ preq' = [preq EXCEPT ![r] =
                       [req EXCEPT !.pc = "pi_save", !.old = payment,
                                   !.doc = IF v.isSuccess
                                             THEN updateStatus(payment, "AUTHORIZED", successData(v))
                                             ELSE updateStatus(payment, "FAILED", failureData(v))]]
    /\ UNCHANGED payments

\* document.save(): $set of the paths the handler modified on the loaded document
savedDoc(stored, old, doc) ==
    [stored EXCEPT !.status = IF doc.status # old.status THEN doc.status ELSE @,
                   !.authorizedAt = IF doc.authorizedAt # old.authorizedAt THEN doc.authorizedAt ELSE @,
                   !.vnpayData = IF doc.vnpayData # old.vnpayData THEN doc.vnpayData ELSE @,
                   !.svc = IF doc.svc # old.svc THEN doc.svc ELSE @]

\* vnpayReturn: the save() of updateStatus resolves, then the response
PR_Save(r) ==
    /\ preq[r].pc = "pr_save"
    /\ LET o == preq[r].cb.params.vnp_TxnRef
       IN  payments' = [payments EXCEPT ![o] = savedDoc(@, preq[r].old, preq[r].doc)]
    /\ preq' = [preq EXCEPT ![r] =
            IF preq[r].doc.status = "AUTHORIZED"
              THEN Respond(preq[r], 200, "Payment successful")
              ELSE Respond(preq[r], 400, "Payment failed")]
    /\ UNCHANGED clock

\* vnpayReturn: the save() rejects; the catch block answers 500
PR_SaveFault(r) ==
    /\ preq[r].pc = "pr_save"
    /\ preq' = [preq EXCEPT ![r] = Respond(preq[r], 500, "Internal server error")]
    /\ UNCHANGED <<clock, payments>>

\* vnpayIpn: the save() of updateStatus resolves, then RspCode 00
PI_Save(r) ==
    /\ preq[r].pc = "pi_save"
    /\ LET o == preq[r].cb.params.vnp_TxnRef
       IN  payments' = [payments EXCEPT ![o] = savedDoc(@, preq[r].old, preq[r].doc)]
    /\ preq' = [preq EXCEPT ![r] = Respond(preq[r], 200, "00")]
    /\ UNCHANGED clock

\* vnpayIpn: the save() rejects; the catch block answers RspCode 99
PI_SaveFault(r) ==
    /\ preq[r].pc = "pi_save"
    /\ preq' = [preq EXCEPT ![r] = Respond(preq[r], 200, "99")]
    /\ UNCHANGED <<clock, payments>>

\* vnpayService.getResponseMessage: the text for a gateway response code
getResponseMessage(responseCode) == "Payment failed"

\* `!isValid` in handleVnpayReturn: isValid is the object verifyReturnUrl
\* returns, and the negation of an object is false whatever its fields say
notTruthy(obj) == FALSE

\* how the service-backed controller answers what handleVnpayReturn returns
\* (code, message) or throws (statusCode, message; code "throw")
serviceRespond(req, code, statusCode, message) ==
    IF req.entry = "service.vnpayIpn"
      THEN Respond(req, 200, IF code = "00" THEN "00" ELSE "99")
      ELSE IF code = "throw" THEN Respond(req, statusCode, message)
           ELSE Respond(req, 200, message)

ServiceEntries == {"service.vnpayReturn", "service.vnpayIpn"}

\* PaymentService.handleVnpayReturn behind the service-backed vnpayReturn and
\* vnpayIpn: verify, Payment.findOne, INITIATED test, new field values
PS_Find(r, entry, cb, dbOk) ==
    /\ preq[r].pc = "idle"
    /\ LET isValid == verifyReturnUrl(cb)
           req == Received(entry, cb, dbOk)
           responseCode == cb.params.vnp_ResponseCode
           payment == findByOrderId(cb.params.vnp_TxnRef)
       IN  preq' = [preq EXCEPT ![r] =
             IF notTruthy(isValid)
               THEN serviceRespond(req, "throw", 400, "Invalid signature")
             ELSE IF ~dbOk
               THEN serviceRespond(req, "throw", 500, "Error processing VNPay return")
             ELSE IF payment.status = "NONE"
               THEN serviceRespond(req, "throw", 404, "Payment not found")
             ELSE IF payment.status # "INITIATED"
               THEN serviceRespond(req, responseCode, 200, "Payment already processed")
             ELSE [req EXCEPT
                     !.pc = "ps_save", !.old = payment,
                     !.doc = [payment EXCEPT
                                !.status = IF responseCode = "00" THEN "COMPLETED" ELSE "FAILED",
                                !.svc = [transactionId |-> cb.params.vnp_TransactionNo,
                                         bankCode |-> cb.params.vnp_BankCode,
                                         paymentDate |-> cb.params.vnp_PayDate,
                                         vnpayResponse |-> responseCode]]]]
    /\ UNCHANGED <<clock, payments>>

\* handleVnpayReturn: payment.save() resolves, the result is returned
PS_Save(r) ==
    /\ preq[r].pc = "ps_save"
    /\ LET o == preq[r].cb.params.vnp_TxnRef
           responseCode == preq[r].cb.params.vnp_ResponseCode
       IN  /\ payments' = [payments EXCEPT ![o] = savedDoc(@, preq[r].old, preq[r].doc)]
           /\ preq' = [preq EXCEPT ![r] =
                  serviceRespond(preq[r], responseCode, 200,
                                 IF responseCode = "00" THEN "Payment successful"
                                 ELSE getResponseMessage(responseCode))]
    /\ UNCHANGED clock

\* handleVnpayReturn: payment.save() rejects, the error reaches the controller
PS_SaveFault(r) ==
    /\ preq[r].pc = "ps_save"
    /\ preq' = [preq EXCEPT ![r] =
            serviceRespond(preq[r], "throw", 500, "Error processing VNPay return")]
    /\ UNCHANGED <<clock, payments>>

\* ------------------------------------------------------------ order ids
MaxOrders == 3
MaxDay == 2
\* numbers of orders already stored for the first day when the run starts
StoredCounts == {0, 3, 998, 999}
\* values Date.now() may return for the timestamp fallback
TimeStamps == {1, 2}
OrderRequests == {"g1", "g2"}

VARIABLES
    orderIds,       \* the orderId values of the stored payments
    today,          \* the current UTC+7 calendar day (dateStr)
    made,           \* number of createPayment calls received so far
    oreq            \* createPayment request -> its position, generated id, response

orderVars == <<orderIds, today, made, oreq>>

\* Number.prototype.toString: the decimal digits of n, most significant first
RECURSIVE toString(_)
toString(n) == IF n < 10 THEN <<n>> ELSE Append(toString(n \div 10), n % 10)

\* String.prototype.padStart(targetLength, padString), padString one character
RECURSIVE padStart(_, _, _)
padStart(str, targetLength, padString) ==
    IF Len(str) >= targetLength THEN str
    ELSE padStart(padString \o str, targetLength, padString)

\* parseInt(str, 10) of a string of decimal digits
RECURSIVE parseInt(_)
parseInt(str) ==
    IF Len(str) = 0 THEN 0
    ELSE parseInt(SubSeq(str, 1, Len(str) - 1)) * 10 + str[Len(str)]

\* `ORDER-${dateStr}-${sequenceStr}` as its three parts
orderIdOf(dateStr, sequence) == <<"ORDER", dateStr, padStart(toString(sequence), 3, <<0>>)>>

\* `ORDER-${timestamp}`: the fallback id
fallbackIdOf(timestamp) == <<"ORDER", timestamp>>

\* the stored ids the regex `^ORDER-${dateStr}-` matches
matchesPrefix(dateStr) == {id \in orderIds : Len(id) = 3 /\ id[2] = dateStr}

\* .sort({ orderId: -1 }).limit(1) over ids with a common prefix: the greatest
\* sequence string in the order strings are compared, character by character,
\* a string that ends being smaller than one that goes on
RECURSIVE greatestString(_, _)
greatestString(strs, i) ==
    LET longer == {str \in strs : Len(str) >= i}
    IN  IF longer = {} THEN CHOOSE str \in strs : TRUE
        ELSE LET c == CHOOSE d \in {str[i] : str \in longer} :
                          \A e \in {str[i] : str \in longer} : e <= d
             IN  greatestString({str \in longer : str[i] = c}, i + 1)

\* generateOrderId, the try block: the id built from the last id of today
newOrderId(dateStr) ==
    LET todayOrders == matchesPrefix(dateStr)
        lastSequence == greatestString({id[3] : id \in todayOrders}, 1)
        sequence == IF todayOrders = {} THEN 1 ELSE parseInt(lastSequence) + 1
    IN  orderIdOf(dateStr, sequence)

IdleOrder == [pc |-> "idle", orderId |-> <<>>, rsp |-> "none"]

\* createPayment: `await generateOrderId()`, whose Payment.find resolves
GO_Find(r) ==
    /\ oreq[r].pc = "idle"
    /\ made < MaxOrders
    /\ made' = made + 1
    /\ oreq' = [oreq EXCEPT ![r] = [IdleOrder EXCEPT !.pc = "go_create",
                                                     !.orderId = newOrderId(today)]]
    /\ UNCHANGED <<orderIds, today>>

\* generateOrderId: Payment.find rejects; the catch block returns the fallback
GO_FindFault(r, timestamp) ==
    /\ oreq[r].pc = "idle"
    /\ made < MaxOrders
    /\ made' = made + 1
    /\ oreq' = [oreq EXCEPT ![r] = [IdleOrder EXCEPT !.pc = "go_create",
                                                     !.orderId = fallbackIdOf(timestamp)]]
    /\ UNCHANGED <<orderIds, today>>

\* createPayment: `await Payment.createPayment({... orderId ...})`; the unique
\* index on orderId rejects an id that is already stored
GO_Create(r) ==
    /\ oreq[r].pc = "go_create"
    /\ IF oreq[r].orderId \in orderIds
         THEN /\ oreq' = [oreq EXCEPT ![r].pc = "done", ![r].rsp = "E11000 duplicate key"]
              /\ UNCHANGED orderIds
         ELSE /\ oreq' = [oreq EXCEPT ![r].pc = "done", ![r].rsp = "ok"]
              /\ orderIds' = orderIds \cup {oreq[r].orderId}
    /\ UNCHANGED <<today, made>>

\* the caller of createPayment receives the response
GO_Deliver(r) ==
    /\ oreq[r].pc = "done"
    /\ oreq' = [oreq EXCEPT ![r] = IdleOrder]
    /\ UNCHANGED <<orderIds, today, made>>

\* midnight in UTC+7: dateStr changes
NewDay ==
    /\ today < MaxDay
    /\ today' = today + 1
    /\ UNCHANGED <<orderIds, made, oreq>>

\* ---------------------------------------------------------- pod catalogue
MaxBatches == 2
Clusters == {"k1", "k2"}
Letters == <<"A", "B", "C", "D", "E", "F", "G", "H", "I", "J", "K", "L", "M",
             "N", "O", "P", "Q", "R", "S", "T", "U", "V", "W", "X", "Y", "Z">>
DigitChars == <<"0", "1", "2", "3", "4", "5", "6", "7", "8", "9">>
MAX_ROWS == 10
MAX_COLS == 20
MAX_TOTAL_PODS == 200
CatalogRequests == {"a1", "a2"}
\* the code a single-mode request asks for
SingleCodes == {<<"A", "0", "1", "U">>}
\* the id of no stored pod
UnknownPod == <<0, 0>>

VARIABLES
    clusters,       \* ids of the stored pod clusters
    catalog,        \* the stored pods as [id, cluster_id, code]
    batches,        \* number of createPods calls received so far
    creq            \* catalogue request -> its position, inputs, loaded data, response

catalogVars == <<clusters, catalog, batches, creq>>

\* getRowLetter: 0 -> A, ..., 25 -> Z, 26 -> AA, ...
RECURSIVE getRowLetter(_)
getRowLetter(index) ==
    LET letter == <<Letters[(index % 26) + 1]>>
        rest == (index \div 26) - 1
    IN  IF rest >= 0 THEN getRowLetter(rest) \o letter ELSE letter

\* String(n): the decimal digits of n as characters
String(n) == [i \in 1..Len(toString(n)) |-> DigitChars[toString(n)[i] + 1]]

generatePodCode_ZeroBasedColumn(rowIndex, colIndex, level) ==
    getRowLetter(rowIndex) \o padStart(String(colIndex), 2, <<"0">>) \o <<level>>

\* generatePodCode: row letter, 2-digit column ordinal, level
generatePodCode(rowIndex, colIndex, level) ==
    getRowLetter(rowIndex) \o padStart(String(colIndex + 1), 2, <<"0">>) \o <<level>>

\* the codes pushed by the two grid loops, in push order: per row, per column, L then U
gridCodes(numRows, numCols) ==
    [i \in 1..(2 * numRows * numCols) |->
        generatePodCode(((i - 1) \div 2) \div numCols, ((i - 1) \div 2) % numCols,
                        IF i % 2 = 1 THEN "L" ELSE "U")]

\* the checks of grid mode before the loops
gridLimits(numRows, numCols) ==
    IF numRows <= 0 \/ numCols <= 0 THEN "Number of rows and columns must be positive integers"
    ELSE IF numRows > MAX_ROWS THEN "Number of rows cannot exceed 10"
    ELSE IF numCols > MAX_COLS THEN "Number of columns cannot exceed 20"
    ELSE IF numRows * numCols * 2 > MAX_TOTAL_PODS THEN "Total pods cannot exceed 200"
    ELSE "ok"

\* codes.filter((code, index) => codes.indexOf(code) !== index)
duplicates(codes) == {i \in 1..Len(codes) : \E j \in 1..(i - 1) : codes[j] = codes[i]}

\* Pod.find({ cluster_id, code: { $in: codes } })
existingCodes(cluster_id, codes) ==
    {pod \in catalog : pod.cluster_id = cluster_id /\ \E i \in 1..Len(codes) : codes[i] = pod.code}

\* the unique index { cluster_id, code } refuses the document
indexRefuses(cat, cluster_id, code) ==
    \E pod \in cat : pod.cluster_id = cluster_id /\ pod.code = code

newPod(batch, i, cluster_id, code) == [id |-> <<batch, i>>, cluster_id |-> cluster_id, code |-> code]

\* the documents of the batch the unique index refuses: the code is stored in
\* the cluster, or an earlier document of the batch has it
refused(cat, cluster_id, codes) ==
    {i \in 1..Len(codes) : indexRefuses(cat, cluster_id, codes[i]) \/ i \in duplicates(codes)}

\* Pod.insertMany(docs): documents are written in order up to the first one refused
insertManyOrdered(cat, batch, cluster_id, codes) ==
    LET bad == refused(cat, cluster_id, codes)
        first == IF bad = {} THEN Len(codes) + 1
                 ELSE CHOOSE i \in bad : \A j \in bad : i <= j
    IN  [catalog |-> cat \cup {newPod(batch, i, cluster_id, codes[i]) : i \in 1..(first - 1)},
         ok |-> bad = {}]

\* Pod.insertMany(docs, { ordered: false }): every document not refused is written
insertManyUnordered(cat, batch, cluster_id, codes) ==
    LET bad == refused(cat, cluster_id, codes)
    IN  [catalog |-> cat \cup {newPod(batch, i, cluster_id, codes[i]) :
                                  i \in (1..Len(codes)) \ bad},
         ok |-> bad = {}]

IdleCatalog == [pc |-> "idle", op |-> "none", batch |-> 0, cluster_id |-> "",
                numRows |-> 0, numCols |-> 0, code |-> <<>>, podId |-> <<>>,
                podsToCreate |-> <<>>, rsp |-> "none"]

Reject(req, message) == [req EXCEPT !.pc = "done", !.rsp = message]

\* createPods, service and controller alike: the cluster checks, then the mode
\* branches up to the next await; `single` is the position single mode goes to
createPodsEntry(req, single) ==
    IF req.cluster_id = "" THEN Reject(req, "Cluster ID is required")
    ELSE IF req.cluster_id \notin clusters THEN Reject(req, "Pod cluster not found")
    ELSE IF req.numRows # 0 /\ req.numCols # 0
         THEN IF gridLimits(req.numRows, req.numCols) # "ok"
                THEN Reject(req, gridLimits(req.numRows, req.numCols))
                ELSE [req EXCEPT !.pc = "insert_or_find",
                                 !.podsToCreate = gridCodes(req.numRows, req.numCols)]
    ELSE IF req.code # <<>>
         THEN [req EXCEPT !.pc = single, !.podsToCreate = <<req.code>>]
    ELSE Reject(req, "Either (numRows and numCols) or (code and name) must be provided")

\* PodService.createPods: `await PodCluster.findOne` resolves; the validations follow
CPS_FindCluster(r, cluster_id, numRows, numCols, code) ==
    /\ creq[r].pc = "idle"
    /\ batches < MaxBatches
    /\ batches' = batches + 1
    /\ LET req == [IdleCatalog EXCEPT !.op = "PodService.createPods", !.batch = batches + 1,
                                      !.cluster_id = cluster_id, !.numRows = numRows,
                                      !.numCols = numCols, !.code = code]
           out == createPodsEntry(req, "cps_single_find")
       IN  creq' = [creq EXCEPT ![r] =
                IF out.pc = "insert_or_find" THEN [out EXCEPT !.pc = "cps_find_codes"] ELSE out]
    /\ UNCHANGED <<clusters, catalog>>

\* PodService.createPods, single mode: `await Pod.findOne({ cluster_id, code })`
CPS_SingleFind(r) ==
    /\ creq[r].pc = "cps_single_find"
    /\ creq' = [creq EXCEPT ![r] =
            IF indexRefuses(catalog, creq[r].cluster_id, creq[r].code)
              THEN Reject(creq[r], "Pod with this code already exists in this cluster")
              ELSE [creq[r] EXCEPT !.pc = "cps_find_codes"]]
    /\ UNCHANGED <<clusters, catalog, batches>>

\* PodService.createPods: the duplicate test ran; `await Pod.find({ code: $in })` resolves
CPS_FindCodes(r) ==
    /\ creq[r].pc = "cps_find_codes"
    /\ creq' = [creq EXCEPT ![r] =
            IF duplicates(creq[r].podsToCreate) # {}
              THEN Reject(creq[r], "Duplicate pod codes detected")
            ELSE IF existingCodes(creq[r].cluster_id, creq[r].podsToCreate) # {}
              THEN Reject(creq[r], "The following pod codes already exist in this cluster")
              ELSE [creq[r] EXCEPT !.pc = "cps_insert"]]
    /\ UNCHANGED <<clusters, catalog, batches>>

\* PodService.createPods: `await Pod.insertMany(podsToCreate)`
CPS_Insert(r) ==
    /\ creq[r].pc = "cps_insert"
    /\ LET out == insertManyOrdered(catalog, creq[r].batch, creq[r].cluster_id,
                                    creq[r].podsToCreate)
       IN  /\ catalog' = out.catalog
           /\ creq' = [creq EXCEPT ![r] =
                    Reject(creq[r], IF out.ok THEN "ok" ELSE "E11000 duplicate key")]
    /\ UNCHANGED <<clusters, batches>>

\* pods controller createPods: `await PodCluster.findOne` resolves; the validations follow
CPC_FindCluster(r, cluster_id, numRows, numCols, code) ==
    /\ creq[r].pc = "idle"
    /\ batches < MaxBatches
    /\ batches' = batches + 1
    /\ LET req == [IdleCatalog EXCEPT !.op = "createPods", !.batch = batches + 1,
                                      !.cluster_id = cluster_id, !.numRows = numRows,
                                      !.numCols = numCols, !.code = code]
           out == createPodsEntry(req, "cpc_insert")
       IN  creq' = [creq EXCEPT ![r] =
                IF out.pc = "insert_or_find" THEN [out EXCEPT !.pc = "cpc_insert"] ELSE out]
    /\ UNCHANGED <<clusters, catalog>>

\* pods controller createPods: `await Pod.insertMany(podsToCreate, { ordered: false })`
\* and the answer to error code 11000
CPC_Insert(r) ==
    /\ creq[r].pc = "cpc_insert"
    /\ LET out == insertManyUnordered(catalog, creq[r].batch, creq[r].cluster_id,
                                      creq[r].podsToCreate)
       IN  /\ catalog' = out.catalog
           /\ creq' = [creq EXCEPT ![r] =
                    Reject(creq[r], IF out.ok THEN "ok"
                                    ELSE "Some pods already exist in this cluster")]
    /\ UNCHANGED <<clusters, batches>>

\* PodService.updatePod with a cluster_id in the body: `await Pod.findOne({ id })`
UP_FindPod(r, podId, cluster_id) ==
    /\ creq[r].pc = "idle"
    /\ LET req == [IdleCatalog EXCEPT !.op = "PodService.updatePod", !.podId = podId]
       IN  creq' = [creq EXCEPT ![r] =
                IF \A pod \in catalog : pod.id # podId THEN Reject(req, "Pod not found")
                ELSE LET pod == CHOOSE q \in catalog : q.id = podId
                     IN  IF cluster_id # pod.cluster_id
                           THEN [req EXCEPT !.pc = "up_find_cluster", !.code = pod.code,
                                            !.cluster_id = cluster_id]
                           ELSE [req EXCEPT !.pc = "up_pre_save", !.code = pod.code,
                                            !.cluster_id = pod.cluster_id]]
    /\ UNCHANGED <<clusters, catalog, batches>>

\* PodService.updatePod: `await PodCluster.findOne({ id: cluster_id })`
UP_FindCluster(r) ==
    /\ creq[r].pc = "up_find_cluster"
    /\ creq' = [creq EXCEPT ![r] =
            IF creq[r].cluster_id \notin clusters THEN Reject(creq[r], "Pod cluster not found")
            ELSE [creq[r] EXCEPT !.pc = "up_find_code"]]
    /\ UNCHANGED <<clusters, catalog, batches>>

\* PodService.updatePod: `await Pod.findOne({ cluster_id, code, id: $ne })`,
\* then pod.cluster_id = cluster_id and save() begins
UP_FindCode(r) ==
    /\ creq[r].pc = "up_find_code"
    /\ creq' = [creq EXCEPT ![r] =
            IF \E pod \in catalog : /\ pod.cluster_id = creq[r].cluster_id
                                    /\ pod.code = creq[r].code
                                    /\ pod.id # creq[r].podId
              THEN Reject(creq[r], "Pod with this code already exists in the target cluster")
              ELSE [creq[r] EXCEPT !.pc = "up_pre_save", !.numRows = 1]]
    /\ UNCHANGED <<clusters, catalog, batches>>

\* podSchema.pre("save"): `await PodCluster.findOne({ id: this.cluster_id })`
UP_PreSave(r) ==
    /\ creq[r].pc = "up_pre_save"
    /\ creq' = [creq EXCEPT ![r] =
            IF creq[r].cluster_id \notin clusters
              THEN Reject(creq[r], "Pod cluster does not exist")
              ELSE [creq[r] EXCEPT !.pc = "up_write"]]
    /\ UNCHANGED <<clusters, catalog, batches>>

\* save(): the modified cluster_id is written to the stored pod (numRows = 1
\* marks the path as modified; nothing is written otherwise)
UP_Write(r) ==
    /\ creq[r].pc = "up_write"
    /\ IF creq[r].numRows # 1
         THEN /\ creq' = [creq EXCEPT ![r] = Reject(creq[r], "ok")]
              /\ UNCHANGED catalog
       ELSE IF \A pod \in catalog : pod.id # creq[r].podId
         THEN /\ creq' = [creq EXCEPT ![r] = Reject(creq[r], "No document found")]
              /\ UNCHANGED catalog
       ELSE LET pod == CHOOSE q \in catalog : q.id = creq[r].podId
            IN  IF indexRefuses(catalog \ {pod}, creq[r].cluster_id, pod.code)
                  THEN /\ creq' = [creq EXCEPT ![r] = Reject(creq[r], "E11000 duplicate key")]
                       /\ UNCHANGED catalog
                  ELSE /\ creq' = [creq EXCEPT ![r] = Reject(creq[r], "ok")]
                       /\ catalog' = (catalog \ {pod}) \cup
                                         {[pod EXCEPT !.cluster_id = creq[r].cluster_id]}
    /\ UNCHANGED <<clusters, batches>>

\* PodService.deletePod of a catalogued pod (its status is AVAILABLE): `await Pod.findOne`
DPS_Find(r, podId) ==
    /\ creq[r].pc = "idle"
    /\ LET req == [IdleCatalog EXCEPT !.op = "PodService.deletePod", !.podId = podId]
       IN  creq' = [creq EXCEPT ![r] =
                IF \A pod \in catalog : pod.id # podId THEN Reject(req, "Pod not found")
                ELSE [req EXCEPT !.pc = "dps_delete"]]
    /\ UNCHANGED <<clusters, catalog, batches>>

\* PodService.deletePod: `await Pod.deleteOne({ id: podId })`
DPS_Delete(r) ==
    /\ creq[r].pc = "dps_delete"
    /\ catalog' = {pod \in catalog : pod.id # creq[r].podId}
    /\ creq' = [creq EXCEPT ![r] = Reject(creq[r], "ok")]
    /\ UNCHANGED <<clusters, batches>>

\* deletePodCluster: `await PodCluster.findOne({ id: clusterId })`
DC_FindCluster(r, clusterId) ==
    /\ creq[r].pc = "idle"
    /\ LET req == [IdleCatalog EXCEPT !.op = "deletePodCluster", !.cluster_id = clusterId]
       IN  creq' = [creq EXCEPT ![r] =
                IF clusterId \notin clusters THEN Reject(req, "Pod cluster not found")
                ELSE [req EXCEPT !.pc = "dc_find_pods"]]
    /\ UNCHANGED <<clusters, catalog, batches>>

\* deletePodCluster: `await Pod.find({ cluster_id: clusterId })`
DC_FindPods(r) ==
    /\ creq[r].pc = "dc_find_pods"
    /\ creq' = [creq EXCEPT ![r] =
            IF \E pod \in catalog : pod.cluster_id = creq[r].cluster_id
              THEN Reject(creq[r], "Cannot delete pod cluster with pods. Delete pods first.")
              ELSE [creq[r] EXCEPT !.pc = "dc_delete_images"]]
    /\ UNCHANGED <<clusters, catalog, batches>>

\* deletePodCluster: `await PodClusterImage.deleteMany`
DC_DeleteImages(r) ==
    /\ creq[r].pc = "dc_delete_images"
    /\ creq' = [creq EXCEPT ![r].pc = "dc_delete"]
    /\ UNCHANGED <<clusters, catalog, batches>>

\* deletePodCluster: `await PodCluster.deleteOne({ id: clusterId })`
DC_Delete(r) ==
    /\ creq[r].pc = "dc_delete"
    /\ clusters' = clusters \ {creq[r].cluster_id}
    /\ creq' = [creq EXCEPT ![r] = Reject(creq[r], "ok")]
    /\ UNCHANGED <<catalog, batches>>

\* the caller receives the response
CT_Deliver(r) ==
    /\ creq[r].pc = "done"
    /\ creq' = [creq EXCEPT ![r] = IdleCatalog]
    /\ UNCHANGED <<clusters, catalog, batches>>

\* ------------------------------------------------------------- signatures
\* the keys a query is signed with: the configured secret or another one
Secrets == {vnp_HashSecret, ForgedSecret}
\* positions of the 128-character hex digest at which a character is changed
AlteredPositions == {1, 128}
ParameterSets ==
    {signedParams(o, a, c, t) :
        o \in TxnRefs, a \in RawAmounts, c \in ResponseCodes, t \in TransactionNos}

VARIABLES
    sreq            \* a query: its parameters, its vnp_SecureHash, the verdict on it

\* the digest with the character at position i replaced by another character
alterCharacter(digest, i) == <<"altered", i, digest[2], digest[3]>>

\* a query that carries the parameters and, so far, no signature
NewQuery(params) ==
    [pc |-> "new", params |-> params, key |-> "", altered |-> 0,
     vnp_SecureHash |-> <<"undefined">>, secureHash |-> <<"undefined">>, isValid |-> FALSE]

\* createPaymentUrl's signing: sortObject, the sign data, createSecureHash under
\* the key; the hash is added to the query
SG_Sign(key) ==
    /\ sreq.pc = "new"
    /\ sreq' = [sreq EXCEPT !.pc = "signed", !.key = key,
                            !.vnp_SecureHash = sign(sreq.params, key)]

\* one character of the signature changes on the way
SG_Alter(i) ==
    /\ sreq.pc = "signed"
    /\ sreq.altered = 0
    /\ sreq' = [sreq EXCEPT !.altered = i,
                            !.vnp_SecureHash = alterCharacter(sreq.vnp_SecureHash, i)]

\* verifyIpnCall(vnpParams): secureHash is read, vnp_SecureHash is deleted from
\* the object, the check sum is recomputed and compared
SG_Verify ==
    /\ sreq.pc = "signed"
    /\ LET cb == [params |-> sreq.params, vnp_SecureHash |-> sreq.vnp_SecureHash]
       IN  sreq' = [sreq EXCEPT !.pc = "verified",
                                !.secureHash = sreq.vnp_SecureHash,
                                !.vnp_SecureHash = <<"undefined">>,
                                !.isValid = verifyIpnCall(cb).isValid]

\* the next query arrives
SG_Next(params) ==
    /\ sreq.pc = "verified"
    /\ sreq' = NewQuery(params)

\* ------------------------------------------------------- incident statuses
\* the status values a request may ask for
RequestedStatuses == {"PENDING", "INVESTIGATING", "RESOLVED", "CLOSED", "REOPENED"}

VARIABLES
    ureq            \* the updateIncidentStatus request: its inputs, position and response

allowedStatus == {"PENDING", "INVESTIGATING", "RESOLVED", "CLOSED"}

IdleUpdate == [pc |-> "idle", incidentId |-> 0, status |-> "PENDING", rsp |-> "none"]

\* updateIncidentStatus: the allowedStatus test, then `await getIncidentById`
UI_Find(incidentId, status) ==
    /\ ureq.pc = "idle"
    /\ LET req == [IdleUpdate EXCEPT !.incidentId = incidentId, !.status = status]
       IN  ureq' = IF status \notin allowedStatus
                     THEN [req EXCEPT !.pc = "done", !.rsp = "Invalid incident status"]
                   ELSE IF incidentId \notin 1..Len(incidents)
                     THEN [req EXCEPT !.pc = "done", !.rsp = "Incident not found"]
                   ELSE [req EXCEPT !.pc = "ui_save"]
    /\ UNCHANGED incidents

\* updateIncidentStatus: `incident.status = status; await incident.save()`
UI_Save ==
    /\ ureq.pc = "ui_save"
    /\ incidents' = [incidents EXCEPT ![ureq.incidentId].status = ureq.status]
    /\ ureq' = [ureq EXCEPT !.pc = "done", !.rsp = "ok"]

\* the caller of updateIncidentStatus receives the response
UI_Deliver ==
    /\ ureq.pc = "done"
    /\ ureq' = IdleUpdate
    /\ UNCHANGED incidents

\* every variable introduced after the registry, for the steps that leave them alone
extraVars == <<orderVars, catalogVars, sreq, ureq>>

\* -------------------------------------------------------------- behaviours
vars == <<podStatus, bookings, clock, breq, payments, preq,
          podExists, lastCleanedAt, incidents, ireq, extraVars>>

\* the state after start-up, but for the orders stored so far and the query
\* under verification
InitRecords ==
    /\ podStatus = [p \in Pods |-> "AVAILABLE"]
    /\ bookings = <<>>
    /\ clock = 0
    /\ breq = [r \in BookingRequests |-> IdleReq]
    /\ payments = [o \in Orders |-> NoPayment]
    /\ preq = [r \in PaymentRequests |-> IdleCallback]
    /\ podExists = Pods
    /\ lastCleanedAt = [p \in Pods |-> NoTime]
    /\ incidents = <<>>
    /\ ireq = IdleIncident
    /\ today = 1
    /\ made = 0
    /\ oreq = [r \in OrderRequests |-> IdleOrder]
    /\ clusters = Clusters
    /\ catalog = {}
    /\ batches = 0
    /\ creq = [r \in CatalogRequests |-> IdleCatalog]
    /\ ureq = IdleUpdate

NoQuery == NewQuery(signedParams("oX", 100, "00", "T1"))

Init == InitRecords /\ orderIds = {} /\ sreq = NoQuery

\* one step of request r in the booking coordinator
CoordinatorStep(r) ==
    /\ \/ \E p \in Pods, iv \in Intervals : CB_FindPod(r, p, iv[1], iv[2])
       \/ CB_FindBookings(r)
       \/ CB_Create(r)
       \/ CB_SavePod(r)
       \/ CB_SavePodFault(r)
       \/ \E b \in 1..MaxBookings : CP_Find(r, b)
       \/ CP_SaveBooking(r)
       \/ CP_UpdatePod(r)
       \/ \E b \in 1..MaxBookings : CN_Find(r, b)
       \/ CN_SaveBooking(r)
       \/ CN_UpdatePod(r)
       \/ Deliver(r)
    /\ UNCHANGED <<payments, preq, podExists, lastCleanedAt, incidents, ireq, extraVars>>

\* one step of a pod status update request r
RegistryStep(r) ==
    /\ \/ \E p \in Pods, st \in RequestStatuses : SUC_Find(r, p, st)
       \/ \E p \in Pods, st \in RequestStatuses : SUS_Find(r, p, st)
       \/ SU_Save(r)
       \/ \E p \in Pods, st \in RequestStatuses : SUU_Update(r, p, st)
    /\ UNCHANGED <<payments, preq, podExists, incidents, ireq, extraVars>>

\* one step of callback request r, or the creation of a payment; the
\* callbacks that arrive are drawn from CBs, the outcomes of a lookup from DbOk
PaymentStep(r, CBs, DbOk) ==
    /\ \/ \E o \in Orders, a \in Amounts : preq[r].pc = "idle" /\ CreatePayment(o, a)
       \/ \E cb \in CBs, dbOk \in DbOk : PR_Find(r, cb, dbOk)
       \/ PR_Save(r)
       \/ PR_SaveFault(r)
       \/ \E cb \in CBs, dbOk \in DbOk : PI_Find(r, cb, dbOk)
       \/ PI_Save(r)
       \/ PI_SaveFault(r)
       \/ \E e \in ServiceEntries, cb \in CBs, dbOk \in DbOk : PS_Find(r, e, cb, dbOk)
       \/ PS_Save(r)
       \/ PS_SaveFault(r)
       \/ DeliverCallback(r)
    /\ UNCHANGED <<podStatus, bookings, breq, podExists, lastCleanedAt, incidents, ireq, extraVars>>

\* requests executed one at a time: each runs to completion before the next starts
SeqBookingNext == CoordinatorStep("b1") \/ RegistryStep("b1")

SeqBookingSpec == Init /\ [][SeqBookingNext]_vars

SeqPaymentNext == PaymentStep("c1", Callbacks, BOOLEAN)

SeqPaymentSpec == Init /\ [][SeqPaymentNext]_vars

\* two booking requests whose database reads and writes interleave
BookingNext == \E r \in BookingRequests : CoordinatorStep(r)

BookingSpec == Init /\ [][BookingNext]_vars

\* deliveries by the gateway for the stored order (at-least-once delivery,
\* return redirect and IPN for one payment), handled concurrently
GatewayCallbacks ==
    {callback(o, a, c, "T1", "gateway") : o \in Orders, a \in RawAmounts, c \in ResponseCodes}

PaymentNext == \E r \in PaymentRequests : PaymentStep(r, GatewayCallbacks, {TRUE})

PaymentSpec == Init /\ [][PaymentNext]_vars

\* the response of request r reaches its caller
DeliverStep(r) ==
    /\ Deliver(r)
    /\ UNCHANGED <<payments, preq, podExists, lastCleanedAt, incidents, ireq, extraVars>>

\* one step of a pod deletion request r
DeletionStep(r) ==
    /\ \/ \E op \in DeleteOps, p \in Pods : DP_Find(r, op, p)
       \/ DP_Delete(r)
       \/ \E p \in Pods : DM_Find(r, p)
       \/ DM_Delete(r)
    /\ UNCHANGED <<payments, preq, lastCleanedAt, incidents, ireq, extraVars>>

\* one step of a complete-cleaning request r
CleaningStep(r) ==
    /\ \/ \E p \in Pods : CC_Find(r, p)
       \/ CC_Save(r)
       \/ \E p \in Pods : CCS_Find(r, p)
    /\ UNCHANGED <<payments, preq, incidents, ireq, extraVars>>

\* one step of the createIncident request
IncidentStep ==
    /\ \/ \E p \in Pods, sv \in Severities : CI_FindPod(p, sv)
       \/ CI_Create
       \/ CI_SavePod
       \/ CI_SavePodFault
       \/ CI_Deliver
    /\ UNCHANGED <<bookings, clock, breq, payments, preq, podExists, lastCleanedAt, extraVars>>

\* pod deletions and status updates whose database operations interleave
DeletionNext ==
    \E r \in BookingRequests : DeletionStep(r) \/ RegistryStep(r) \/ DeliverStep(r)

DeletionSpec == Init /\ [][DeletionNext]_vars

\* status updates and complete-cleaning requests executed one at a time
CleaningNext == RegistryStep("b1") \/ CleaningStep("b1") \/ DeliverStep("b1")

CleaningSpec == Init /\ [][CleaningNext]_vars

\* incident reports and status updates executed one at a time
IncidentNext ==
    \/ ireq.pc = "idle" /\ (RegistryStep("b1") \/ DeliverStep("b1"))
    \/ breq["b1"].pc = "idle" /\ IncidentStep

IncidentSpec == Init /\ [][IncidentNext]_vars

\* one step of createPayment request r
OrderStep(r) ==
    /\ \/ GO_Find(r)
       \/ \E t \in TimeStamps : GO_FindFault(r, t)
       \/ GO_Create(r)
       \/ GO_Deliver(r)
       \/ NewDay
    /\ UNCHANGED <<podStatus, bookings, clock, breq, payments, preq,
                   podExists, lastCleanedAt, incidents, ireq, catalogVars, sreq, ureq>>

\* the orders of the first day stored before the run: sequences 001 .. n
OrderInit ==
    /\ InitRecords
    /\ sreq = NoQuery
    /\ \E n \in StoredCounts : orderIds = {orderIdOf(1, k) : k \in 1..n}

\* createPayment requests executed one at a time
SeqOrderNext == OrderStep("g1")

SeqOrderSpec == OrderInit /\ [][SeqOrderNext]_vars

\* createPayment requests whose database operations interleave
OrderNext == \E r \in OrderRequests : OrderStep(r)

OrderSpec == OrderInit /\ [][OrderNext]_vars

\* the grid sizes and the codes createPods is called with
GridRows == {-1, 0, 1, 2, 3, 10, 11}
GridCols == {0, 1, 2, 10, 20, 21}
GridInputs == {<<nr, nc, <<>>>> : nr \in GridRows, nc \in GridCols}
                  \cup {<<0, 0, code>> : code \in SingleCodes}
CatalogInputs == {<<1, 1, <<>>>>} \cup {<<0, 0, code>> : code \in SingleCodes}

\* one step of a createPods request r of the service, with inputs from `inputs`
CreatePodsStep(r, clusterIds, inputs) ==
    \/ \E c \in clusterIds, in \in inputs : CPS_FindCluster(r, c, in[1], in[2], in[3])
    \/ CPS_SingleFind(r)
    \/ CPS_FindCodes(r)
    \/ CPS_Insert(r)
    \/ CT_Deliver(r)

OtherVars == <<podStatus, bookings, clock, breq, payments, preq,
               podExists, lastCleanedAt, incidents, ireq, orderVars, sreq, ureq>>

\* createPods of the service called with grids of many sizes, one call at a time
GridNext == CreatePodsStep("a1", {"k1"}, GridInputs) /\ UNCHANGED OtherVars

GridSpec == Init /\ [][GridNext]_vars

\* one step of catalogue request r
CatalogStep(r) ==
    /\ \/ CreatePodsStep(r, Clusters, CatalogInputs)
       \/ \E c \in Clusters, in \in CatalogInputs : CPC_FindCluster(r, c, in[1], in[2], in[3])
       \/ CPC_Insert(r)
       \/ \E pod \in catalog, c \in Clusters : UP_FindPod(r, pod.id, c)
       \/ UP_FindCluster(r)
       \/ UP_FindCode(r)
       \/ UP_PreSave(r)
       \/ UP_Write(r)
       \/ \E podId \in {pod.id : pod \in catalog} \cup {UnknownPod} : DPS_Find(r, podId)
       \/ DPS_Delete(r)
       \/ \E c \in Clusters : DC_FindCluster(r, c)
       \/ DC_FindPods(r)
       \/ DC_DeleteImages(r)
       \/ DC_Delete(r)
    /\ UNCHANGED OtherVars

\* catalogue requests whose database operations interleave
CatalogNext == \E r \in CatalogRequests : CatalogStep(r)

CatalogSpec == Init /\ [][CatalogNext]_vars

\* queries signed, possibly altered, and verified, one after the other
SignatureNext ==
    /\ \/ \E key \in Secrets : SG_Sign(key)
       \/ \E i \in AlteredPositions : SG_Alter(i)
       \/ SG_Verify
       \/ \E params \in ParameterSets : SG_Next(params)
    /\ UNCHANGED <<podStatus, bookings, clock, breq, payments, preq, podExists,
                   lastCleanedAt, incidents, ireq, orderVars, catalogVars, ureq>>

\* the first query carries any of the parameter sets
SignatureInit ==
    /\ InitRecords
    /\ orderIds = {}
    /\ \E params \in ParameterSets : sreq = NewQuery(params)

SignatureSpec == SignatureInit /\ [][SignatureNext]_vars

\* one step of the updateIncidentStatus request
UpdateIncidentStep ==
    /\ \/ \E i \in 1..MaxIncidents, st \in RequestedStatuses : UI_Find(i, st)
       \/ UI_Save
       \/ UI_Deliver
    /\ UNCHANGED <<podStatus, bookings, clock, breq, payments, preq, podExists,
                   lastCleanedAt, ireq, orderVars, catalogVars, sreq>>

\* incidents reported and their statuses updated, one request at a time
IncidentStatusNext ==
    \/ ureq.pc = "idle" /\ IncidentStep
    \/ ireq.pc = "idle" /\ UpdateIncidentStep

IncidentStatusSpec == Init /\ [][IncidentStatusNext]_vars

\* ------------------------------------------------------------------ claims
Active(b) == b.status \in {"BOOKED", "IN_USE"}

\* the half-open intervals [startTime, endTime) of two bookings share a time point
Overlapping(a, b) ==
    \E t \in Times : /\ a.startTime <= t /\ t < a.endTime
                     /\ b.startTime <= t /\ t < b.endTime

\* C1: with requests executed one at a time, no two BOOKED or IN_USE bookings
\* of the same pod have overlapping intervals [startTime, endTime)
C1_NoOverlappingActiveBookings ==
    \A i, j \in 1..Len(bookings) :
        (i # j /\ bookings[i].pod = bookings[j].pod /\ Active(bookings[i]) /\ Active(bookings[j]))
            => ~Overlapping(bookings[i], bookings[j])

\* createBooking has just added a second active booking to a pod that already
\* had one (the pod was made AVAILABLE again by a status update in between)
C1_Witness ==
    /\ breq["b1"].pc = "done" /\ breq["b1"].op = "createBooking" /\ breq["b1"].rsp = "ok"
    /\ \E i \in 1..Len(bookings) :
          /\ i # breq["b1"].bid
          /\ bookings[i].pod = breq["b1"].pod
          /\ Active(bookings[i]) /\ Active(bookings[breq["b1"].bid])

\* C2: of two concurrent createBooking requests for overlapping intervals on
\* one pod at most one creates its booking: never do both leave BOOKED bookings
C2_AtMostOneConcurrentBookingSucceeds ==
    \A r1, r2 \in BookingRequests :
        (/\ r1 # r2
         /\ breq[r1].op = "createBooking" /\ breq[r2].op = "createBooking"
         /\ breq[r1].bid # 0 /\ breq[r2].bid # 0
         /\ breq[r1].pod = breq[r2].pod
         /\ bookings[breq[r1].bid].status = "BOOKED" /\ bookings[breq[r2].bid].status = "BOOKED")
            => ~Overlapping(bookings[breq[r1].bid], bookings[breq[r2].bid])

\* the IPN entry points and the positions between a handler's checks and its write
IpnEntries == {"vnpayIpn", "service.vnpayIpn"}

\* request r is received in this step
Arrives(r) == preq[r].pc = "idle" /\ preq'[r].pc # "idle"

\* request r, already past its lookup, changes its order's payment in this step
Writes(r) ==
    /\ preq[r].pc \in {"pr_save", "pi_save", "ps_save"}
    /\ preq'[r].pc = "done"
    /\ payments'[preq[r].cb.params.vnp_TxnRef] # payments[preq[r].cb.params.vnp_TxnRef]

\* C3: a payment that is AUTHORIZED stays AUTHORIZED whatever callback arrives
C3_AuthorizedNeverDowngraded ==
    [][\A o \in Orders :
          payments[o].status = "AUTHORIZED" => payments'[o].status = "AUTHORIZED"]_vars

\* C4: a payment whose status is not INITIATED is left unchanged (status,
\* authorizedAt, gateway data) by every callback
C4_OnlyInitiatedPaymentsChange ==
    [][\A o \in Orders :
          payments[o].status \notin {"NONE", "INITIATED"} => payments'[o] = payments[o]]_vars

\* the stored payment was put into its success state by this very payload
ConfirmedBy(payment, cb) ==
    \/ /\ payment.status = "AUTHORIZED"
       /\ payment.vnpayData = successData(verifyIpnCall(cb))
    \/ /\ payment.status = "COMPLETED"
       /\ payment.svc.transactionId = cb.params.vnp_TransactionNo
       /\ payment.svc.vnpayResponse = cb.params.vnp_ResponseCode

\* C5: a validly signed success IPN (code "00", matching amount) delivered again
\* after it confirmed the payment is answered RspCode "00" and changes nothing
C5_SecondDeliveryAnswered00 ==
    [][\A r \in PaymentRequests :
          LET cb == preq'[r].cb
              o == cb.params.vnp_TxnRef
          IN  (/\ Arrives(r)
               /\ preq'[r].entry \in IpnEntries
               /\ preq'[r].dbOk
               /\ verifyIpnCall(cb).isValid
               /\ cb.params.vnp_ResponseCode = "00"
               /\ o \in Orders
               /\ ~amountDiffers(findByOrderId(o), cb.params.vnp_Amount)
               /\ ConfirmedBy(findByOrderId(o), cb))
                  => /\ preq'[r].pc = "done"
                     /\ preq'[r].rsp = "00"
                     /\ payments' = payments]_vars

\* C6: of concurrent deliveries for one order, a delivery writes the payment
\* only if the payment still passes the already-processed check it made: the
\* IPN handler never writes over AUTHORIZED, PaymentService only over INITIATED
C6_WriteOnlyWhileCheckHolds ==
    [][\A r \in PaymentRequests :
          LET stored == payments[preq[r].cb.params.vnp_TxnRef]
          IN  Writes(r) =>
                /\ preq[r].pc = "pi_save" => ~alreadyConfirmed(stored)
                /\ preq[r].pc = "ps_save" => stored.status = "INITIATED"]_vars

\* C7: a callback whose vnp_SecureHash differs from the recomputed hash is
\* answered at once, the IPN entry points with RspCode "97", and no request
\* carrying such a callback writes a payment
C7_BadSignatureRejected ==
    [][\A r \in PaymentRequests :
          /\ (Arrives(r) /\ ~verifyIpnCall(preq'[r].cb).isValid)
                => /\ preq'[r].pc = "done"
                   /\ preq'[r].entry \in IpnEntries => preq'[r].rsp = "97"
          /\ Writes(r) => verifyIpnCall(preq[r].cb).isValid]_vars

\* C8: a validly signed callback whose vnp_Amount / 100 differs from the amount
\* of the INITIATED payment is answered at once, the IPN entry points with
\* RspCode "04", and no request carrying such a callback writes the payment
C8_AmountMismatchRejected ==
    [][\A r \in PaymentRequests :
          /\ LET cb == preq'[r].cb
                 o == cb.params.vnp_TxnRef
             IN  (/\ Arrives(r)
                  /\ preq'[r].dbOk
                  /\ verifyIpnCall(cb).isValid
                  /\ findByOrderId(o).status = "INITIATED"
                  /\ amountDiffers(findByOrderId(o), cb.params.vnp_Amount))
                     => /\ preq'[r].pc = "done"
                        /\ preq'[r].entry \in IpnEntries => preq'[r].rsp = "04"
          /\ (Writes(r) /\ verifyIpnCall(preq[r].cb).isValid)
                => ~amountDiffers(preq[r].old, preq[r].cb.params.vnp_Amount)]_vars

\* C9: every answer of an IPN entry point is HTTP 200 with a RspCode of the
\* fixed set; a validly signed callback for an order without payment record,
\* whose lookup did not fail, is answered "01"
C9_IpnResponseContract ==
    \A r \in PaymentRequests :
        (preq[r].pc = "done" /\ preq[r].entry \in IpnEntries)
            => /\ preq[r].http = 200
               /\ preq[r].rsp \in {"00", "01", "02", "04", "97", "99"}
               /\ (/\ verifyIpnCall(preq[r].cb).isValid
                   /\ preq[r].dbOk
                   /\ findByOrderId(preq[r].cb.params.vnp_TxnRef).status = "NONE")
                      => preq[r].rsp = "01"

\* the operations that set a pod's status to a requested value
StatusUpdateOps == {"updatePodStatus", "PodService.updatePodStatus", "utils.updatePodStatus"}

\* C10: a status update to OCCUPIED succeeds iff the pod was AVAILABLE; from
\* any other status it fails and the pod keeps the status it had
C10_ReserveOnlyFromAvailable ==
    \A r \in BookingRequests :
        (/\ breq[r].pc = "done"
         /\ breq[r].op \in StatusUpdateOps
         /\ breq[r].status = "OCCUPIED")
            => IF breq[r].seen = "AVAILABLE"
                 THEN breq[r].rsp = "ok" /\ podStatus[breq[r].pod] = "OCCUPIED"
                 ELSE breq[r].rsp # "ok" /\ podStatus[breq[r].pod] = breq[r].seen

\* C11: the creation of the booking and the flip of its pod to OCCUPIED are one
\* atomic step: no other request passes the pod-status test of createBooking
\* between the two writes, and a createBooking that has created its booking
\* never ends without its pod being OCCUPIED
C11_CreateAndFlipAtomic ==
    [][\A r1 \in BookingRequests :
          (breq[r1].pc = "cb_save" /\ podStatus[breq[r1].pod] = "AVAILABLE")
              => /\ \A r2 \in BookingRequests \ {r1} :
                        ~(/\ breq[r2].pc = "idle"
                          /\ breq'[r2].pc = "cb_find"
                          /\ breq'[r2].pod = breq[r1].pod)
                 /\ breq'[r1].pc = "done" => podStatus'[breq[r1].pod] = "OCCUPIED"]_vars

\* request r is received in this step and is a call of op
Begins(r, op) == breq[r].pc = "idle" /\ breq'[r].pc # "idle" /\ breq'[r].op = op

\* request r, a call of op, returns in this step
Ends(r, op) == breq[r].pc \notin {"idle", "done"} /\ breq[r].op = op /\ breq'[r].pc = "done"

\* C12: cancelBooking on a COMPLETED booking fails and changes neither the
\* booking nor its pod; on a BOOKED booking it passes the test, and when it
\* returns the booking is CANCELLED and its pod AVAILABLE
C12_CancelBooking ==
    [][\A r \in BookingRequests :
          /\ (Begins(r, "cancelBooking") /\ breq'[r].bid \in 1..Len(bookings))
                => /\ bookings[breq'[r].bid].status = "COMPLETED"
                        => /\ breq'[r].pc = "done" /\ breq'[r].rsp # "ok"
                           /\ bookings' = bookings /\ podStatus' = podStatus
                   /\ bookings[breq'[r].bid].status = "BOOKED" => breq'[r].pc = "cn_save"
          /\ Ends(r, "cancelBooking")
                => /\ breq'[r].rsp = "ok"
                   /\ bookings'[breq[r].bid].status = "CANCELLED"
                   /\ podStatus'[breq[r].pod] = "AVAILABLE"]_vars

\* a cancelBooking has returned: its booking is CANCELLED, its pod released
C12_Witness ==
    /\ breq["b1"].pc = "done" /\ breq["b1"].op = "cancelBooking" /\ breq["b1"].rsp = "ok"
    /\ bookings[breq["b1"].bid].status = "CANCELLED"
    /\ podStatus[breq["b1"].pod] = "AVAILABLE"

\* C13: cancelBooking does not set the pod to AVAILABLE while another booking
\* of that pod is BOOKED or IN_USE (the pod was re-occupied by another flow)
C13_CancelKeepsReoccupiedPod ==
    [][\A r \in BookingRequests :
          (/\ Ends(r, "cancelBooking")
           /\ \E j \in 1..Len(bookings) :
                 j # breq[r].bid /\ bookings[j].pod = breq[r].pod /\ Active(bookings[j]))
              => /\ breq'[r].rsp # "ok"
                 /\ podStatus'[breq[r].pod] = podStatus[breq[r].pod]]_vars

\* C14: completeBooking moves its pod to NEEDS_CLEANING only from OCCUPIED: a
\* pod in any other status keeps that status
C14_ReleaseOnlyFromOccupied ==
    [][\A r \in BookingRequests :
          (Ends(r, "completeBooking") /\ podStatus[breq[r].pod] # "OCCUPIED")
              => podStatus'[breq[r].pod] = podStatus[breq[r].pod]]_vars

\* C15: createBooking against a pod that is not AVAILABLE fails with "Pod is
\* not available" and writes nothing; a booking is only ever created while its
\* pod is AVAILABLE
C15_CreateRequiresAvailablePod ==
    [][/\ \A r \in BookingRequests :
            (Begins(r, "createBooking") /\ podStatus[breq'[r].pod] # "AVAILABLE")
                => /\ breq'[r].pc = "done"
                   /\ breq'[r].rsp = "Pod is not available"
                   /\ bookings' = bookings /\ podStatus' = podStatus
       /\ Len(bookings') > Len(bookings)
            => podStatus[bookings'[Len(bookings')].pod] = "AVAILABLE"]_vars

\* a createBooking has been turned away because its pod was not AVAILABLE
C15_Witness ==
    /\ breq["b1"].pc = "done" /\ breq["b1"].op = "createBooking"
    /\ breq["b1"].rsp = "Pod is not available"
    /\ breq["b1"].seen # "AVAILABLE"
    /\ podStatus[breq["b1"].pod] = breq["b1"].seen

\* the interval [s, e) touches booking b at an endpoint
Touches(s, e, b) == s = b.endTime \/ e = b.startTime

C20_CleaningOnlyFromNeedsCleaning ==
    \A r \in BookingRequests :
        (/\ breq[r].pc = "done"
         /\ breq[r].op \in StatusUpdateOps
         /\ breq[r].status = "CLEANING"
         /\ breq[r].seen # "NEEDS_CLEANING")
            => breq[r].rsp # "ok" /\ podStatus[breq[r].pod] = breq[r].seen

\* C17: a createIncident with severity HIGH or CRITICAL that has returned has
\* stored its incident with status PENDING and left its pod OUT_OF_SERVICE
C17_SevereIncidentForcesOutOfService ==
    (/\ ireq.pc = "done" /\ ireq.rsp = "ok"
     /\ ireq.severity \in {"HIGH", "CRITICAL"})
        => /\ Len(incidents) > 0
           /\ incidents[Len(incidents)] =
                  [pod |-> ireq.pod, severity |-> ireq.severity, status |-> "PENDING"]
           /\ podStatus[ireq.pod] = "OUT_OF_SERVICE"

\* C18: no pod document is deleted while its status is OCCUPIED
C18_NoOccupiedPodDeleted ==
    [][\A p \in Pods :
          (p \in podExists /\ p \notin podExists') => podStatus[p] # "OCCUPIED"]_vars

\* the complete-cleaning operations
CompleteCleaningOps == {"completePodCleaning", "service.completePodCleaning"}

\* C19: a complete-cleaning request on a pod that is not CLEANING fails and
\* changes neither status nor last_cleaned_at, and every step that takes a pod
\* from CLEANING to AVAILABLE gives last_cleaned_at a new value
C19_CompleteCleaningOnlyFromCleaning ==
    [][/\ \A r \in BookingRequests :
            (/\ breq[r].pc # "done" /\ breq'[r].pc = "done"
             /\ breq'[r].op \in CompleteCleaningOps
             /\ breq'[r].seen # "CLEANING")
                => /\ breq'[r].rsp # "ok"
                   /\ podStatus' = podStatus /\ lastCleanedAt' = lastCleanedAt
       /\ \A p \in Pods :
            (podStatus[p] = "CLEANING" /\ podStatus'[p] = "AVAILABLE")
                => lastCleanedAt'[p] # lastCleanedAt[p]]_vars

\* C29: a pod in NEEDS_CLEANING is never made AVAILABLE directly; it has to
\* pass through CLEANING first
C29_NeedsCleaningNotDirectlyAvailable ==
    [][\A p \in Pods :
          podStatus[p] = "NEEDS_CLEANING" => podStatus'[p] # "AVAILABLE"]_vars

\* C30: a CANCELLED booking never becomes COMPLETED, and a COMPLETED booking
\* keeps its status and its actualEndTime whatever is called later
C30_TerminalBookingsStay ==
    [][\A i \in 1..Len(bookings) :
          /\ bookings[i].status = "CANCELLED" => bookings'[i].status # "COMPLETED"
          /\ bookings[i].status = "COMPLETED" => bookings'[i] = bookings[i]]_vars

\* the numerically highest of a set of sequence strings: the greatest of the
\* longest ones (no stored sequence has a leading zero beyond three digits)
highestSequence(strs) ==
    LET maxLen == CHOOSE n \in {Len(str) : str \in strs} :
                      \A m \in {Len(str) : str \in strs} : m <= n
    IN  parseInt(greatestString({str \in strs : Len(str) = maxLen}, 1))

\* request r obtains a dated id from generateOrderId in this step
Generates(r) ==
    /\ oreq[r].pc = "idle"
    /\ oreq'[r].pc = "go_create"
    /\ Len(oreq'[r].orderId) = 3

\* C21: every dated id generateOrderId hands out carries today's date and the
\* sequence number one above the highest sequence stored for today (1 when
\* nothing is stored for today), zero-padded to three digits, whatever the
\* number of orders of the day, more than 999 included.
C21_NextSequence ==
    [][\A r \in OrderRequests :
          Generates(r) =>
              LET stored == {id[3] : id \in matchesPrefix(today)}
                  next == IF stored = {} THEN 1 ELSE highestSequence(stored) + 1
              IN  oreq'[r].orderId = <<"ORDER", today, padStart(toString(next), 3, <<0>>)>>]_vars

\* C22: under any interleaving of createPayment requests no request holds a
\* generated id that is stored or that another request holds, and none is
\* answered with the duplicate-key error of the unique orderId index.
C22_UniqueOrderIds ==
    \A r \in OrderRequests :
        /\ oreq[r].rsp # "E11000 duplicate key"
        /\ oreq[r].pc = "go_create" =>
              /\ oreq[r].orderId \notin orderIds
              /\ \A q \in OrderRequests \ {r} :
                    oreq[q].pc = "go_create" => oreq[q].orderId # oreq[r].orderId

\* the pods stored by the createPods call numbered batch
CreatedBy(batch) == {pod \in catalog : pod.id[1] = batch}

\* the createPods operations, of the service and of the controller
CreatePodsOps == {"PodService.createPods", "createPods"}

\* C23: a createPods request that is rejected has created no pod of its batch:
\* the stored pods are those there would be without the call.
C23_BatchAllOrNothing ==
    \A r \in CatalogRequests :
        (creq[r].op \in CreatePodsOps /\ creq[r].pc = "done" /\ creq[r].rsp # "ok")
            => CreatedBy(creq[r].batch) = {}

\* the code of the cell in row and column (both counted from 1) at a level,
\* written out: the row's letter, two decimal digits, the level
cellCode(row, col, level) ==
    <<Letters[row], DigitChars[(col \div 10) + 1], DigitChars[(col % 10) + 1], level>>

\* a grid request within the limits that passed the cluster checks
GridRequested(r) ==
    /\ creq[r].op = "PodService.createPods"
    /\ creq[r].numRows \in 1..MAX_ROWS
    /\ creq[r].numCols \in 1..MAX_COLS
    /\ 2 * creq[r].numRows * creq[r].numCols <= MAX_TOTAL_PODS
    /\ creq[r].rsp \notin {"Cluster ID is required", "Pod cluster not found"}

\* C24: a grid request of r rows and c columns within the limits is not refused
\* for its size and prepares exactly 2*r*c pods with pairwise distinct codes, an
\* L and a U one per cell, each the row letter, the 2-digit column ordinal and
\* the level; when it succeeds exactly these pods are stored for it; for
\* r = c = 2 the codes are A01L, A01U, A02L, A02U, B01L, B01U, B02L, B02U.
C24_GridCodes ==
    \A r \in CatalogRequests :
        GridRequested(r) =>
            LET q == creq[r]
                codes == {q.podsToCreate[i] : i \in 1..Len(q.podsToCreate)}
                expected == {cellCode(row, col, level) :
                                row \in 1..q.numRows, col \in 1..q.numCols, level \in {"L", "U"}}
            IN  /\ q.pc \in {"cps_find_codes", "cps_insert", "done"}
                /\ q.rsp \in {"none", "ok", "E11000 duplicate key",
                              "The following pod codes already exist in this cluster"}
                /\ Len(q.podsToCreate) = 2 * q.numRows * q.numCols
                /\ Cardinality(codes) = 2 * q.numRows * q.numCols
                /\ codes = expected
                /\ q.rsp = "ok" =>
                      /\ Cardinality(CreatedBy(q.batch)) = 2 * q.numRows * q.numCols
                      /\ {pod.code : pod \in CreatedBy(q.batch)} = expected
                      /\ \A pod \in CreatedBy(q.batch) : pod.cluster_id = q.cluster_id
                /\ (q.numRows = 2 /\ q.numCols = 2) =>
                      codes = {<<"A", "0", "1", "L">>, <<"A", "0", "1", "U">>,
                               <<"A", "0", "2", "L">>, <<"A", "0", "2", "U">>,
                               <<"B", "0", "1", "L">>, <<"B", "0", "1", "U">>,
                               <<"B", "0", "2", "L">>, <<"B", "0", "2", "U">>}

\* a 2 x 2 grid request has succeeded and its eight pods are stored
C24_Witness ==
    /\ creq["a1"].pc = "done"
    /\ creq["a1"].rsp = "ok"
    /\ creq["a1"].numRows = 2
    /\ creq["a1"].numCols = 2
    /\ Cardinality(CreatedBy(creq["a1"].batch)) = 8

\* C28: in every state the cluster_id of every stored pod is the id of a
\* stored pod cluster.
C28_ClusterReferenceResolves ==
    \A pod \in catalog : pod.cluster_id \in clusters

\* the stored payment holds the gateway data of the payload, in the fields
\* updateStatus writes or in those handleVnpayReturn writes
HoldsGatewayData(payment, cb) ==
    \/ payment.vnpayData = successData(verifyIpnCall(cb))
    \/ payment.svc = [transactionId |-> cb.params.vnp_TransactionNo,
                      bankCode |-> cb.params.vnp_BankCode,
                      paymentDate |-> cb.params.vnp_PayDate,
                      vnpayResponse |-> cb.params.vnp_ResponseCode]

\* C25: a validly signed, amount-matching callback for an INITIATED payment is
\* taken to the write, and its write leaves the payment AUTHORIZED with
\* authorizedAt stamped and the gateway transaction number, bank code,
\* response code and pay date stored when the response code is "00", and
\* FAILED with the response code stored and authorizedAt unset otherwise.
C25_InitiatedCallbackOutcome ==
    [][\A r \in PaymentRequests :
          LET cb == preq'[r].cb
              o == cb.params.vnp_TxnRef
              code == cb.params.vnp_ResponseCode
              applies == /\ verifyIpnCall(cb).isValid
                         /\ o \in Orders
                         /\ payments[o].status = "INITIATED"
                         /\ ~amountDiffers(payments[o], cb.params.vnp_Amount)
          IN  /\ (Arrives(r) /\ preq'[r].dbOk /\ applies)
                    => preq'[r].pc \in {"pr_save", "pi_save", "ps_save"}
              /\ (Writes(r) /\ applies) =>
                    IF code = "00"
                      THEN /\ payments'[o].status = "AUTHORIZED"
                           /\ payments'[o].authorizedAt # NoTime
                           /\ HoldsGatewayData(payments'[o], cb)
                      ELSE /\ payments'[o].status = "FAILED"
                           /\ payments'[o].authorizedAt = NoTime
                           /\ \/ payments'[o].vnpayData.responseCode = code
                              \/ payments'[o].svc.vnpayResponse = code]_vars

statusRank(status) ==
    CASE status = "PENDING" -> 1
      [] status = "INVESTIGATING" -> 2
      [] status = "RESOLVED" -> 3
      [] status = "CLOSED" -> 4
      [] OTHER -> 0

\* C27: no step moves an incident's status backward along PENDING,
\* INVESTIGATING, RESOLVED, CLOSED or to a value outside these four, and an
\* updateIncidentStatus request with a value outside the four is rejected.
C27_IncidentStatusForwardOnly ==
    [][/\ \A i \in 1..Len(incidents) :
             statusRank(incidents'[i].status) >= statusRank(incidents[i].status)
       /\ (ureq.pc = "idle" /\ ureq'.pc # "idle" /\ ureq'.status \notin allowedStatus)
             => (ureq'.pc = "done" /\ ureq'.rsp = "Invalid incident status")]_vars

====
